---- MODULE Spec2Model ----
(***************************************************************************)
(* Column-map expectation validation of great_expectations:                *)
(*   expectations/expectation.py  (Expectation, DatasetExpectation,        *)
(*   ColumnMapDatasetExpectation, _format_map_output).                     *)
(*                                                                         *)
(* Python values are encoded so that TLC can compare them:                 *)
(*   None          is  <<>>                                                *)
(*   a value v     is  <<v>>      (Some(v)), also when v is itself a list  *)
(*   a float q     is  the exact fraction <<n, d>> in lowest terms         *)
(*   a dict        is  a function whose domain is the set of its keys      *)
(* A call ends in an outcome: a returned value or a raised error.          *)
(***************************************************************************)
EXTENDS Integers, Sequences, FiniteSets, TLC

VARIABLES
    column,         \* the batch: one column of cells, None for a null cell
    configuration,  \* Expectation._configuration of the instance
    call,           \* the arguments of the last call made
    last            \* the outcome of the last call made

vars == <<column, configuration, call, last>>

---------------------------------------------------------------------------
(* Bounds of the model *)

MaxRows == 3    \* rows of the batch
MaxVal == 2     \* distinct values that fail the map condition: 1..MaxVal
MaxCap == 2     \* largest partial_unexpected_count tried (smallest is -1)
MaxLen == 4     \* largest value length and largest length bound tried

---------------------------------------------------------------------------
(* Python values *)

None == <<>>
Some(v) == <<v>>
IsNone(x) == x = <<>>
Val(x) == x[1]

Min(a, b) == IF a <= b THEN a ELSE b
Max(a, b) == IF a >= b THEN a ELSE b

RECURSIVE GCD(_, _)
GCD(a, b) == IF b = 0 THEN a ELSE GCD(b, a % b)

\* The quotient n/d (d > 0, n >= 0) as a fraction in lowest terms.
Rat(n, d) == LET g == GCD(n, d) IN <<n \div g, d \div g>>

\* q1 >= q2 for fractions with positive denominators.
RatGeq(q1, q2) == q1[1] * q2[2] >= q2[1] * q1[2]

\* Python's  lst[:stop]  for an integer stop (a negative stop counts from the end).
Slice(lst, stop) ==
    LET n == IF stop >= 0 THEN Min(stop, Len(lst)) ELSE Max(Len(lst) + stop, 0)
    IN  SubSeq(lst, 1, n)

\* The elements of a finite set of integers, in increasing order.
Ascending(S) ==
    [k \in 1..Cardinality(S) |->
        CHOOSE x \in S : Cardinality({y \in S : y < x}) = k - 1]

Elems(lst) == {lst[i] : i \in 1..Len(lst)}

Outcome(kind, value, error) == [kind |-> kind, value |-> value, error |-> error]
Return(v) == Outcome("return", v, "")
Raise(e) == Outcome("raise", <<>>, e)
NoOutcome == Outcome("none", <<>>, "")

---------------------------------------------------------------------------
(* collections.Counter(lst).most_common(n) and sorted(..., key=...) *)

\* The distinct elements of lst in order of first appearance (the key order of
\* Counter(lst)).
RECURSIVE Distinct(_)
Distinct(lst) ==
    IF lst = <<>> THEN <<>>
    ELSE LET init == Distinct(SubSeq(lst, 1, Len(lst) - 1))
             x == lst[Len(lst)]
         IN  IF \E i \in 1..Len(init) : init[i] = x THEN init ELSE Append(init, x)

Occurrences(lst, x) == Cardinality({i \in 1..Len(lst) : lst[i] = x})

\* Counter(lst).items(): <<value, count>> pairs in order of first appearance.
CounterItems(lst) ==
    LET keys == Distinct(lst)
    IN  [i \in 1..Len(keys) |-> <<keys[i], Occurrences(lst, keys[i])>>]

\* sorted(lst, ...) for a strict order given as the set of pairs <<a, b>> with a
\* before b. Python's sort is stable: of two elements neither of which is
\* before the other, the earlier one stays first.
Sorted(lst, before) ==
    LET n == Len(lst)
        Rank(i) == 1 + Cardinality({j \in 1..n :
                          \/ <<lst[j], lst[i]>> \in before
                          \/ (<<lst[i], lst[j]>> \notin before /\ j < i)})
    IN  [k \in 1..n |-> lst[CHOOSE i \in 1..n : Rank(i) = k]]

\* The sort keys used on <<value, count>> items: key=itemgetter(1) reversed
\* (most_common), and key=lambda x: (-x[1], x[0]) (line 698).
CountDescending(items) ==
    {p \in Elems(items) \X Elems(items) : p[1][2] > p[2][2]}
CountDescendingValueAscending(items) ==
    {p \in Elems(items) \X Elems(items) :
        p[1][2] > p[2][2] \/ (p[1][2] = p[2][2] /\ p[1][1] < p[2][1])}

\* Counter.most_common(n) is heapq.nlargest(n, items, key=count): the items by
\* count descending, equal counts in order of first appearance, cut to n.
MostCommon(lst, n) ==
    LET items == CounterItems(lst)
    IN  Slice(Sorted(items, CountDescending(items)), Max(n, 0))

---------------------------------------------------------------------------
(* _format_map_output (expectation.py 622-730) *)

Tiers == <<"BOOLEAN_ONLY", "BASIC", "SUMMARY", "COMPLETE">>
TierNames == {Tiers[i] : i \in 1..Len(Tiers)}

\* Lines 647-677 raise TypeError on arguments that are None where a number or
\* a list is used: element_count - nonnull_count (653), element_count > 0
\* (655), unexpected_count / element_count (656), unexpected_list[:cap] (674).
BasicRaises(element_count, nonnull_count, unexpected_count, unexpected_list) ==
    \/ (~IsNone(nonnull_count) /\ IsNone(element_count))
    \/ IsNone(element_count)
    \/ (Val(element_count) > 0 /\ IsNone(unexpected_count))
    \/ IsNone(unexpected_list)

\* UnexpectedPercent without the factor 100.
UnexpectedPercent_AsFraction(element_count, unexpected_count) ==
    IF Val(element_count) > 0
    THEN Some(Rat(Val(unexpected_count), Val(element_count)))
    ELSE None

\* Line 656: unexpected_count / element_count * 100, None when there are no rows.
UnexpectedPercent(element_count, unexpected_count) ==
    IF Val(element_count) > 0
    THEN Some(Rat(Val(unexpected_count) * 100, Val(element_count)))
    ELSE None

\* Lines 660-663, 668: unexpected_count / nonnull_count * 100.
UnexpectedPercentNonmissing(element_count, nonnull_count, unexpected_count) ==
    IF Val(element_count) > 0 /\ Val(nonnull_count) > 0
    THEN Some(Rat(Val(unexpected_count) * 100, Val(nonnull_count)))
    ELSE None

\* BasicResult that takes an unknown nonnull_count as 0 and keeps the fields
\* that depend on it.
BasicResult_UnknownAsZero(result_format, element_count, nonnull_count, unexpected_count, unexpected_list) ==
    LET known == IF IsNone(nonnull_count) THEN Some(0) ELSE nonnull_count
        missing_count == Some(Val(element_count) - Val(known))
    IN  ("missing_count" :> missing_count)
        @@ ("missing_percent" :>
               IF Val(element_count) > 0
               THEN Some(Rat(Val(missing_count) * 100, Val(element_count)))
               ELSE None)
        @@ ("unexpected_percent_nonmissing" :>
               UnexpectedPercentNonmissing(element_count, known, unexpected_count))
        @@ ("element_count" :> element_count)
        @@ ("unexpected_count" :> unexpected_count)
        @@ ("unexpected_percent" :> UnexpectedPercent(element_count, unexpected_count))
        @@ ("partial_unexpected_list" :>
               Slice(Val(unexpected_list), result_format.partial_unexpected_count))

\* Lines 647-684: the result dict of the BASIC tier.
BasicResult(result_format, element_count, nonnull_count, unexpected_count, unexpected_list) ==
    LET skip_missing == IsNone(nonnull_count)
        missing_count == Some(Val(element_count) - Val(nonnull_count))
        missing_percent ==
            IF Val(element_count) > 0
            THEN Some(Rat(Val(missing_count) * 100, Val(element_count)))
            ELSE None
        result ==
            ("element_count" :> element_count)
            @@ ("unexpected_count" :> unexpected_count)
            @@ ("unexpected_percent" :> UnexpectedPercent(element_count, unexpected_count))
            @@ ("partial_unexpected_list" :>
                   Slice(Val(unexpected_list), result_format.partial_unexpected_count))
    IN  IF skip_missing THEN result
        ELSE ("missing_count" :> missing_count)
             @@ ("missing_percent" :> missing_percent)
             @@ ("unexpected_percent_nonmissing" :>
                    UnexpectedPercentNonmissing(element_count, nonnull_count,
                                                unexpected_count))
             @@ result

\* A value that has no hash, such as a list: Counter raises TypeError on it.
\* Every other value of a cell is a natural number.
Unhashable == -1
Hashable(lst) == \A i \in 1..Len(lst) : lst[i] # Unhashable

\* Lines 702-704: the entry that stands for counts that could not be made.
CountsSentinel == "partial_exception_counts requires a hashable type"

\* PartialUnexpectedCounts that gives no entry at all when Counter raises.
PartialUnexpectedCounts_EmptyOnTypeError(unexpected_list, cap) ==
    LET common == MostCommon(unexpected_list, cap)
        items == Sorted(common, CountDescendingValueAscending(common))
    IN  IF ~Hashable(unexpected_list) THEN <<>>
        ELSE [i \in 1..Len(items) |-> [value |-> items[i][1], count |-> items[i][2]]]

\* Lines 691-704: the most common values, sorted by (-count, value); the
\* TypeError of Counter on an unhashable value is caught and gives the sentinel.
PartialUnexpectedCounts(unexpected_list, cap) ==
    LET common == MostCommon(unexpected_list, cap)
        items == Sorted(common, CountDescendingValueAscending(common))
    IN  IF ~Hashable(unexpected_list) THEN <<CountsSentinel>>
        ELSE [i \in 1..Len(items) |-> [value |-> items[i][1], count |-> items[i][2]]]

\* SummaryUpdate with the cap tested as 0 <= cap.
SummaryUpdate_ZeroCapIncluded(result_format, result, unexpected_list, unexpected_index_list) ==
    LET cap == result_format.partial_unexpected_count
    IN  IF 0 <= cap
        THEN ("partial_unexpected_index_list" :>
                 IF ~IsNone(unexpected_index_list)
                 THEN Some(Slice(Val(unexpected_index_list), cap))
                 ELSE None)
             @@ ("partial_unexpected_counts" :>
                    PartialUnexpectedCounts(Val(unexpected_list), cap))
             @@ result
        ELSE result

\* Lines 689-715: what SUMMARY adds to the result dict (dict.update).
SummaryUpdate(result_format, result, unexpected_list, unexpected_index_list) ==
    LET cap == result_format.partial_unexpected_count
    IN  IF 0 < cap
        THEN ("partial_unexpected_index_list" :>
                 IF ~IsNone(unexpected_index_list)
                 THEN Some(Slice(Val(unexpected_index_list), cap))
                 ELSE None)
             @@ ("partial_unexpected_counts" :>
                    PartialUnexpectedCounts(Val(unexpected_list), cap))
             @@ result
        ELSE result

\* CompleteUpdate that also replaces partial_unexpected_list by the full list.
CompleteUpdate_ReplacingPartialList(result, unexpected_list, unexpected_index_list) ==
    ("unexpected_list" :> unexpected_list)
    @@ ("unexpected_index_list" :> unexpected_index_list)
    @@ ("partial_unexpected_list" :> Val(unexpected_list))
    @@ result

\* CompleteUpdate that returns the truncated list as unexpected_list.
CompleteUpdate_TruncatedList(result, unexpected_list, unexpected_index_list) ==
    ("unexpected_list" :> Some(result.partial_unexpected_list))
    @@ ("unexpected_index_list" :> unexpected_index_list)
    @@ result

\* Lines 720-725: what COMPLETE adds to the result dict (dict.update).
CompleteUpdate(result, unexpected_list, unexpected_index_list) ==
    ("unexpected_list" :> unexpected_list)
    @@ ("unexpected_index_list" :> unexpected_index_list)
    @@ result

\* format_map_output with the BOOLEAN_ONLY test made after the BASIC fields
\* are computed.
format_map_output_LateBooleanOnly(result_format, success, element_count, nonnull_count, unexpected_count, unexpected_list, unexpected_index_list) ==
    LET tier == result_format.result_format
        return_obj == ("success" :> success)
        basic == BasicResult(result_format, element_count, nonnull_count,
                             unexpected_count, unexpected_list)
        summary == SummaryUpdate(result_format, basic, unexpected_list,
                                 unexpected_index_list)
        complete == CompleteUpdate(summary, unexpected_list, unexpected_index_list)
    IN  IF BasicRaises(element_count, nonnull_count, unexpected_count,
                       unexpected_list)
        THEN Raise("TypeError")
        ELSE IF tier = "BOOLEAN_ONLY" THEN Return(return_obj)
        ELSE IF tier = "BASIC" THEN Return(("result" :> basic) @@ return_obj)
        ELSE IF tier = "SUMMARY" THEN Return(("result" :> summary) @@ return_obj)
        ELSE IF tier = "COMPLETE" THEN Return(("result" :> complete) @@ return_obj)
        ELSE Raise("ValueError")

\* _format_map_output (622-730).
format_map_output(result_format, success, element_count, nonnull_count, unexpected_count, unexpected_list, unexpected_index_list) ==
    LET tier == result_format.result_format
        return_obj == ("success" :> success)
        basic == BasicResult(result_format, element_count, nonnull_count,
                             unexpected_count, unexpected_list)
        summary == SummaryUpdate(result_format, basic, unexpected_list,
                                 unexpected_index_list)
        complete == CompleteUpdate(summary, unexpected_list, unexpected_index_list)
    IN  IF tier = "BOOLEAN_ONLY" THEN Return(return_obj)
        ELSE IF BasicRaises(element_count, nonnull_count, unexpected_count,
                            unexpected_list)
        THEN Raise("TypeError")
        ELSE IF tier = "BASIC" THEN Return(("result" :> basic) @@ return_obj)
        ELSE IF tier = "SUMMARY" THEN Return(("result" :> summary) @@ return_obj)
        ELSE IF tier = "COMPLETE" THEN Return(("result" :> complete) @@ return_obj)
        ELSE Raise("ValueError")

---------------------------------------------------------------------------
(* The batch and the metrics resolved from it *)

\* A cell is null (None) or holds a value; value 0 stands for any value that
\* meets the map condition, 1..MaxVal and the unhashable value for the values
\* that fail it.
Cells == {None} \cup {Some(v) : v \in 0..MaxVal} \cup {Some(Unhashable)}

Columns == UNION {[1..n -> Cells] : n \in 0..MaxRows}

IsNull(cell) == IsNone(cell)
IsUnexpected(cell) == ~IsNone(cell) /\ Val(cell) # 0

RowCount(col) == Len(col)
NullCount(col) == Cardinality({i \in 1..Len(col) : IsNull(col[i])})
UnexpectedRows(col) == Ascending({i \in 1..Len(col) : IsUnexpected(col[i])})
UnexpectedCount(col) == Len(UnexpectedRows(col))
UnexpectedValues(col) ==
    [i \in 1..UnexpectedCount(col) |-> Val(col[UnexpectedRows(col)[i]])]
\* Row indexes as pandas gives them, from 0.
UnexpectedIndexList(col) ==
    [i \in 1..UnexpectedCount(col) |-> UnexpectedRows(col)[i] - 1]

---------------------------------------------------------------------------
(* Calls of _format_map_output on the counts and lists of a batch *)

NoCall == [op |-> "none"]

ResultFormatNames == TierNames \cup {"WEIRD"}

\* The arguments a caller may leave as None.
NullCases ==
    { {}, {"nonnull_count"}, {"unexpected_index_list"}, {"unexpected_count"},
      {"unexpected_list"},
      {"element_count", "nonnull_count", "unexpected_count", "unexpected_list",
       "unexpected_index_list"} }

OrNone(name, nulls, v) == IF name \in nulls THEN None ELSE Some(v)

\* The arguments of a call on the counts and lists of the batch col.
FormatArgs(col, tier, cap, success, nulls) ==
    [op |-> "format_map_output",
     result_format |-> [result_format |-> tier, partial_unexpected_count |-> cap],
     success |-> success,
     element_count |-> OrNone("element_count", nulls, RowCount(col)),
     nonnull_count |-> OrNone("nonnull_count", nulls, RowCount(col) - NullCount(col)),
     unexpected_count |-> OrNone("unexpected_count", nulls, UnexpectedCount(col)),
     unexpected_list |-> OrNone("unexpected_list", nulls, UnexpectedValues(col)),
     unexpected_index_list |-> OrNone("unexpected_index_list", nulls,
                                      UnexpectedIndexList(col))]

FormatOutcome(a) ==
    format_map_output(a.result_format, a.success, a.element_count, a.nonnull_count,
                      a.unexpected_count, a.unexpected_list, a.unexpected_index_list)

\* The call is made: its outcome is recorded.
FormatCall ==
    /\ call.op = "format_map_output"
    /\ last = NoOutcome
    /\ last' = FormatOutcome(call)
    /\ UNCHANGED <<column, configuration, call>>

\* The inputs of the call are drawn here; FormatCall applies the function.
InitFormat ==
    /\ column \in Columns
    /\ configuration = None
    /\ \E tier \in ResultFormatNames, cap \in -1..MaxCap,
          success \in {None, Some(TRUE), Some(FALSE)}, nulls \in NullCases :
           call = FormatArgs(column, tier, cap, success, nulls)
    /\ last = NoOutcome

NextFormat == FormatCall

SpecFormat == InitFormat /\ [][NextFormat]_vars

---------------------------------------------------------------------------
(* Expectation and ColumnMapDatasetExpectation (expectation.py 90-585) *)

\* ExpectColumnValueLengthsToBeBetween.map_metric
map_metric == "column_values.value_length_between"

\* ColumnValuesValueLengthsBetween.condition_metric_name
\* (column_value_lengths_between.py 13)
condition_metric_name == "column_values.value_lengths_between"

\* The suffixes get_validation_dependencies appends to map_metric (468-536).
MapMetricSuffixes == {".unexpected_count", ".unexpected_values", ".unexpected_rows", ".unexpected_index_list"}

NonnullUnexpectedCount == "column_values.nonnull.unexpected_count"
TableRowCount == "table.row_count"
MapUnexpectedCount == map_metric \o ".unexpected_count"
MapUnexpectedValues == map_metric \o ".unexpected_values"
MapUnexpectedRows == map_metric \o ".unexpected_rows"
MapUnexpectedIndexList == map_metric \o ".unexpected_index_list"

\* Every metric of the batch col, resolved: the number of rows, the number of
\* null cells (the cells that fail the nonnull condition), and the count,
\* values, rows and row indexes of the non-null cells that fail the map
\* condition.
ResolvedMetrics(col) ==
    (TableRowCount :> RowCount(col))
    @@ (NonnullUnexpectedCount :> NullCount(col))
    @@ (MapUnexpectedCount :> UnexpectedCount(col))
    @@ (MapUnexpectedValues :> UnexpectedValues(col))
    @@ (MapUnexpectedRows :> UnexpectedValues(col))
    @@ (MapUnexpectedIndexList :> UnexpectedIndexList(col))

Restrict(f, keys) == [k \in keys |-> f[k]]

\* dict.get(key, default) and dict.get(key)
Get(d, key, default) == IF key \in DOMAIN d THEN d[key] ELSE default
GetOrNone(d, key) == IF key \in DOMAIN d THEN Some(d[key]) ELSE None

\* default_kwarg_values: "result_format": "BASIC" (104), "mostly": 1 (422)
DefaultResultFormat == "BASIC"
DefaultMostly == <<1, 1>>

\* The cap parse_result_format gives a result_format that names none.
DefaultPartialUnexpectedCount == 20

\* data_asset.util.parse_result_format on a result_format given as a string.
parse_result_format(result_format) ==
    [result_format |-> result_format,
     partial_unexpected_count |-> DefaultPartialUnexpectedCount]

\* `if runtime_configuration:` is false for None and for an empty dict.
Truthy(runtime_configuration) ==
    ~IsNone(runtime_configuration) /\ DOMAIN Val(runtime_configuration) # {}

\* get_runtime_kwargs (238-262): a deep copy of the configuration's kwargs,
\* updated with the runtime configuration, read with the class defaults.
get_runtime_kwargs(config, runtime_configuration) ==
    LET kwargs == IF Truthy(runtime_configuration)
                  THEN Val(runtime_configuration) @@ config.kwargs
                  ELSE config.kwargs
    IN  [result_format |->
             parse_result_format(Get(kwargs, "result_format", DefaultResultFormat)),
         mostly |-> Get(kwargs, "mostly", DefaultMostly)]

\* get_success_kwargs (224-236) of a configuration.
get_success_kwargs(config) ==
    [mostly |-> Get(config.kwargs, "mostly", DefaultMostly)]

\* DatasetExpectation.metric_dependencies (370): the class declares none.
metric_dependencies == {}

\* get_validation_dependencies that requests the index list from every engine.
get_validation_dependencies_IndexListAnyEngine(config, execution_engine, runtime_configuration) ==
    LET result_format ==
            get_runtime_kwargs(config, runtime_configuration).result_format
        result_format_str == result_format.result_format
        base == metric_dependencies \cup {NonnullUnexpectedCount, MapUnexpectedCount}
        basic == base \cup {TableRowCount, MapUnexpectedValues}
        complete == basic \cup {MapUnexpectedRows, MapUnexpectedIndexList}
    IN  [result_format |-> result_format,
         metrics |-> IF result_format_str = "BOOLEAN_ONLY" THEN base
                     ELSE IF result_format_str \in {"BASIC", "SUMMARY"} THEN basic
                     ELSE complete]

\* ColumnMapDatasetExpectation.get_validation_dependencies (441-538): the
\* result format and the names of the metrics requested.
get_validation_dependencies(config, execution_engine, runtime_configuration) ==
    LET result_format ==
            get_runtime_kwargs(config, runtime_configuration).result_format
        result_format_str == result_format.result_format
        base == metric_dependencies \cup {NonnullUnexpectedCount, MapUnexpectedCount}
        basic == base \cup {TableRowCount, MapUnexpectedValues}
        complete == basic \cup {MapUnexpectedRows}
                    \cup (IF execution_engine = "PandasExecutionEngine"
                          THEN {MapUnexpectedIndexList} ELSE {})
    IN  [result_format |-> result_format,
         metrics |-> IF result_format_str = "BOOLEAN_ONLY" THEN base
                     ELSE IF result_format_str \in {"BASIC", "SUMMARY"} THEN basic
                     ELSE complete]

\* ValidateResultFormat that reads the configuration's result_format before
\* the runtime configuration's.
ValidateResultFormat_ConfigurationFirst(config, runtime_configuration) ==
    IF "result_format" \in DOMAIN config.kwargs THEN config.kwargs.result_format
    ELSE IF Truthy(runtime_configuration)
    THEN Get(Val(runtime_configuration), "result_format", DefaultResultFormat)
    ELSE DefaultResultFormat

\* Lines 548-558: the result_format _validate shapes the result with.
ValidateResultFormat(config, runtime_configuration) ==
    IF Truthy(runtime_configuration)
    THEN Get(Val(runtime_configuration), "result_format",
             Get(config.kwargs, "result_format", DefaultResultFormat))
    ELSE Get(config.kwargs, "result_format", DefaultResultFormat)

\* A count that is resolved to None; every other count is a natural number.
NoneCount == -1

\* Lines 562-572: success from the resolved counts.
ValidateSuccess(metrics, mostly) ==
    LET null_count == metrics[NonnullUnexpectedCount]
    IN  IF null_count # NoneCount /\ null_count > 0
        THEN Some(RatGeq(<<null_count - metrics[MapUnexpectedCount], null_count>>,
                         mostly))
        ELSE None

\* ColumnMapDatasetExpectation._validate (540-585). self_config is the
\* instance's _configuration, config the configuration being validated.
validate(self_config, config, metrics, runtime_configuration, execution_engine) ==
    IF IsNone(self_config)
    THEN Raise("InvalidExpectationConfigurationError")  \* self.configuration, 559
    ELSE IF TableRowCount \notin DOMAIN metrics
    THEN Raise("TypeError")                             \* None - int, 578
    ELSE IF metrics[NonnullUnexpectedCount] = NoneCount
    THEN Raise("TypeError")                             \* int - None, 578
    ELSE format_map_output(
             parse_result_format(ValidateResultFormat(config, runtime_configuration)),
             ValidateSuccess(metrics, get_success_kwargs(Val(self_config)).mostly),
             GetOrNone(metrics, TableRowCount),
             Some(metrics[TableRowCount] - metrics[NonnullUnexpectedCount]),
             GetOrNone(metrics, MapUnexpectedCount),
             GetOrNone(metrics, MapUnexpectedValues),
             GetOrNone(metrics, MapUnexpectedIndexList))

\* Expectation.metrics_validate (144-169).
metrics_validate(self_config, metrics, config_arg, runtime_configuration, execution_engine) ==
    IF IsNone(config_arg) /\ IsNone(self_config)
    THEN Raise("InvalidExpectationConfigurationError")  \* self.configuration, 152
    ELSE LET config == IF IsNone(config_arg) THEN Val(self_config)
                       ELSE Val(config_arg)
             requested_metrics ==
                 get_validation_dependencies(config, execution_engine,
                                             runtime_configuration).metrics
         IN  IF ~(requested_metrics \subseteq DOMAIN metrics)
             THEN Raise("KeyError")                     \* metrics[...], 160
             ELSE validate(self_config, config,
                           Restrict(metrics, requested_metrics),
                           runtime_configuration, execution_engine)

---------------------------------------------------------------------------
(* Construction: Expectation.__init__ and validate_configuration of          *)
(* Expectation, ColumnMapDatasetExpectation and                              *)
(* ExpectColumnValueLengthsToBeBetween                                       *)

\* camel_to_snake of the class name (line 64), and the type of another class.
ExpectationType == "expect_column_value_lengths_to_be_between"
OtherExpectationType == "expect_column_values_to_match_regex"

\* The value of a kwarg that may be of any type: a number is the fraction
\* <<n, d>> (d > 0, lowest terms), a str s is <<s>>, None is <<>>.
IsNumber(x) == Len(x) = 2
IsInteger(x) == IsNumber(x) /\ x[2] = 1
IsZero(x) == IsNumber(x) /\ x[1] = 0
InUnitInterval(q) == 0 <= q[1] /\ q[1] <= q[2]

\* raise InvalidExpectationConfigurationError(str(e)) for a failed assert
InvalidConfiguration(message) == Outcome("raise", <<message>>, "InvalidExpectationConfigurationError")

TypeMismatchMessage == "expectation configuration type does not match expectation type"
ColumnRequiredMessage == "'column' parameter is required for column map expectations"
MostlyNotNumberMessage == "'mostly' parameter must be an integer or float"
MostlyRangeMessage == "'mostly' parameter must be between 0 and 1"
BothNoneMessage == "min_value and max_value cannot both be None"
NotIntegerMessage == "min_value and max_value must be integers"

\* Expectation.validate_configuration (264-273) of a configuration.
Expectation_validate_configuration(config) ==
    IF config.expectation_type = ExpectationType THEN Return(TRUE)
    ELSE InvalidConfiguration(TypeMismatchMessage)

\* ColumnMapDatasetExpectation_validate_configuration with mostly = 1 refused.
ColumnMapDatasetExpectation_validate_configuration_StrictUpper(config) ==
    LET super == Expectation_validate_configuration(config)
        kwargs == config.kwargs
    IN  IF super.kind = "raise" THEN super
        ELSE IF "column" \notin DOMAIN kwargs
        THEN InvalidConfiguration(ColumnRequiredMessage)
        ELSE IF "mostly" \in DOMAIN kwargs /\ ~IsNumber(kwargs.mostly)
        THEN InvalidConfiguration(MostlyNotNumberMessage)
        ELSE IF "mostly" \in DOMAIN kwargs
                /\ ~(0 <= kwargs.mostly[1] /\ kwargs.mostly[1] < kwargs.mostly[2])
        THEN InvalidConfiguration(MostlyRangeMessage)
        ELSE Return(TRUE)

\* ColumnMapDatasetExpectation.validate_configuration (424-439).
ColumnMapDatasetExpectation_validate_configuration(config) ==
    LET super == Expectation_validate_configuration(config)
        kwargs == config.kwargs
    IN  IF super.kind = "raise" THEN super
        ELSE IF "column" \notin DOMAIN kwargs
        THEN InvalidConfiguration(ColumnRequiredMessage)
        ELSE IF "mostly" \in DOMAIN kwargs /\ ~IsNumber(kwargs.mostly)
        THEN InvalidConfiguration(MostlyNotNumberMessage)
        ELSE IF "mostly" \in DOMAIN kwargs /\ ~InUnitInterval(kwargs.mostly)
        THEN InvalidConfiguration(MostlyRangeMessage)
        ELSE Return(TRUE)

\* Line 115: the key looked up is the value of  "max_value" != None, that is
\* True; the keys of kwargs are strings, so the lookup gives None.
KwargsGetTrue(kwargs) == None

\* ExpectColumnValueLengthsToBeBetween.validate_configuration (105-127).
validate_configuration(config) ==
    LET super == ColumnMapDatasetExpectation_validate_configuration(config)
        kwargs == config.kwargs
        min_value == Get(kwargs, "min_value", None)
        max_value == Get(kwargs, "max_value", None)
    IN  IF super.kind = "raise" THEN super
        ELSE IF ~(~IsNone(min_value) \/ ~IsNone(KwargsGetTrue(kwargs)))
        THEN InvalidConfiguration(BothNoneMessage)
        ELSE IF ~IsNone(min_value) /\ ~IsNumber(min_value)
        THEN Raise("ValueError")    \* float() of a str that is no number, 117
        ELSE IF ~IsNone(min_value) /\ ~IsZero(min_value) /\ ~IsInteger(min_value)
        THEN InvalidConfiguration(NotIntegerMessage)
        ELSE IF ~IsNone(max_value) /\ ~IsNumber(max_value)
        THEN Raise("ValueError")    \* 121
        ELSE IF ~IsNone(max_value) /\ ~IsZero(max_value) /\ ~IsInteger(max_value)
        THEN InvalidConfiguration(NotIntegerMessage)
        ELSE Return(TRUE)

\* init that stores the configuration before it is validated.
init_StoreFirst(config_arg) ==
    [outcome |-> IF IsNone(config_arg) THEN Return(None)
                 ELSE IF validate_configuration(Val(config_arg)).kind = "raise"
                 THEN validate_configuration(Val(config_arg))
                 ELSE Return(None),
     configuration |-> config_arg]

\* Expectation.__init__ (108-111): the outcome, and the _configuration the
\* instance holds (None when none is given or the constructor raised).
init(config_arg) ==
    LET checked == validate_configuration(Val(config_arg))
    IN  IF IsNone(config_arg)
        THEN [outcome |-> Return(None), configuration |-> None]
        ELSE IF checked.kind = "raise"
        THEN [outcome |-> checked, configuration |-> None]
        ELSE [outcome |-> Return(None), configuration |-> config_arg]

\* The kwargs given to a constructor: with or without a column, a mostly (in
\* range, out of range, not a number, None), and bounds (absent, None, an
\* integer, 0, not an integer, a str that is no number).
ConstructMostly == {<<0, 1>>, <<1, 2>>, <<1, 1>>, <<-1, 2>>, <<3, 2>>, <<"high">>, None}
ConstructMinValue == {None, <<0, 1>>, <<1, 1>>, <<3, 2>>, <<"abc">>}
ConstructMaxValue == {None, <<3, 1>>, <<5, 2>>, <<"abc">>}

ConstructKwargs ==
    { c @@ m @@ lo @@ hi :
        c \in {<<>>, ("column" :> "a")},
        m \in {<<>>} \cup {("mostly" :> q) : q \in ConstructMostly},
        lo \in {<<>>} \cup {("min_value" :> v) : v \in ConstructMinValue},
        hi \in {<<>>} \cup {("max_value" :> v) : v \in ConstructMaxValue} }

ConstructArguments ==
    {None} \cup {Some([expectation_type |-> t, kwargs |-> k]) :
                    t \in {ExpectationType, OtherExpectationType},
                    k \in ConstructKwargs}

\* An instance is constructed; the instance of the state is the new one.
Construct ==
    \E config_arg \in ConstructArguments :
        /\ call' = [op |-> "__init__", configuration |-> config_arg]
        /\ last' = init(config_arg).outcome
        /\ configuration' = init(config_arg).configuration
        /\ UNCHANGED column

InitConstruct ==
    /\ column = <<>>
    /\ configuration = None
    /\ call = NoCall
    /\ last = NoOutcome

NextConstruct == Construct

SpecConstruct == InitConstruct /\ [][NextConstruct]_vars

---------------------------------------------------------------------------
(* validate_configuration of the three expectation classes *)

ZScoresExpectationType == "expect_column_value_z_scores_to_be_less_than"
RegexExpectationType == "expect_column_values_to_match_regex"

ThresholdRequiredMessage == "A Z-score threshold must be provided"
ThresholdNotNumberMessage == "Provided threshold must be a number"
DoubleSidedNotBoolMessage == "Double sided parameter must be a boolean value"
RegexRequiredMessage == "regex is required"
RegexNotStrMessage == "regex must be a string"

\* Expectation.validate_configuration (264-273) followed by
\* ColumnMapDatasetExpectation.validate_configuration (424-439), on an instance
\* of the class whose expectation_type is class_type.
super_validate_configuration(class_type, config) ==
    LET kwargs == config.kwargs
    IN  IF config.expectation_type # class_type
        THEN InvalidConfiguration(TypeMismatchMessage)
        ELSE IF "column" \notin DOMAIN kwargs
        THEN InvalidConfiguration(ColumnRequiredMessage)
        ELSE IF "mostly" \in DOMAIN kwargs /\ ~IsNumber(kwargs.mostly)
        THEN InvalidConfiguration(MostlyNotNumberMessage)
        ELSE IF "mostly" \in DOMAIN kwargs /\ ~InUnitInterval(kwargs.mostly)
        THEN InvalidConfiguration(MostlyRangeMessage)
        ELSE Return(TRUE)

\* The values drawn for double_sided are a bool <<b>>, None, or a number.
IsBool(x) == Len(x) = 1
\* The values drawn for regex are a str <<s>>, None, or a number.
IsStr(x) == Len(x) = 1

\* ExpectColumnValueZScoresToBeLessThan.validate_configuration (96-124). The
\* third assert subscripts kwargs with "double_sided" (120): a missing key
\* raises KeyError, which the except clause for AssertionError lets through.
ExpectColumnValueZScoresToBeLessThan_validate_configuration(config) ==
    LET super == super_validate_configuration(ZScoresExpectationType, config)
        kwargs == config.kwargs
    IN  IF super.kind = "raise" THEN super
        ELSE IF "threshold" \notin DOMAIN kwargs
        THEN InvalidConfiguration(ThresholdRequiredMessage)
        ELSE IF ~IsNumber(kwargs.threshold)
        THEN InvalidConfiguration(ThresholdNotNumberMessage)
        ELSE IF "double_sided" \notin DOMAIN kwargs
        THEN Raise("KeyError")
        ELSE IF ~IsBool(kwargs.double_sided)
        THEN InvalidConfiguration(DoubleSidedNotBoolMessage)
        ELSE Return(TRUE)

\* ExpectColumnValuesToMatchRegex.validate_configuration (103-114).
ExpectColumnValuesToMatchRegex_validate_configuration(config) ==
    LET super == super_validate_configuration(RegexExpectationType, config)
        kwargs == config.kwargs
    IN  IF super.kind = "raise" THEN super
        ELSE IF "regex" \notin DOMAIN kwargs
        THEN InvalidConfiguration(RegexRequiredMessage)
        ELSE IF ~IsStr(kwargs.regex)
        THEN InvalidConfiguration(RegexNotStrMessage)
        ELSE Return(TRUE)

\* Column and mostly of a configuration, for every class.
ColumnMapKwargs ==
    { c @@ m :
        c \in {<<>>, ("column" :> "a")},
        m \in {<<>>} \cup {("mostly" :> q) : q \in ConstructMostly} }

ThresholdValues == {<<3, 1>>, <<5, 2>>, <<"high">>, None}
DoubleSidedValues == {<<TRUE>>, <<FALSE>>, <<1, 1>>, None}
RegexValues == {<<"a+">>, <<1, 1>>, None}

ZScoresKwargs ==
    { k @@ t @@ d :
        k \in ColumnMapKwargs,
        t \in {<<>>} \cup {("threshold" :> v) : v \in ThresholdValues},
        d \in {<<>>} \cup {("double_sided" :> v) : v \in DoubleSidedValues} }

RegexKwargs ==
    { k @@ r : k \in ColumnMapKwargs, r \in {<<>>} \cup {("regex" :> v) : v \in RegexValues} }

\* The configurations given to validate_configuration of each class, all of
\* the class's own expectation_type.
ValidateConfigurationCalls ==
    {[op |-> "validate_configuration", class |-> ExpectationType, configuration |-> [expectation_type |-> ExpectationType, kwargs |-> k]] : k \in ConstructKwargs}
    \cup {[op |-> "validate_configuration", class |-> ZScoresExpectationType, configuration |-> [expectation_type |-> ZScoresExpectationType, kwargs |-> k]] : k \in ZScoresKwargs}
    \cup {[op |-> "validate_configuration", class |-> RegexExpectationType, configuration |-> [expectation_type |-> RegexExpectationType, kwargs |-> k]] : k \in RegexKwargs}

LengthsValidateConfigurationCall ==
    /\ call.op = "validate_configuration"
    /\ call.class = ExpectationType
    /\ last = NoOutcome
    /\ last' = validate_configuration(call.configuration)
    /\ UNCHANGED <<column, configuration, call>>

ZScoresValidateConfigurationCall ==
    /\ call.op = "validate_configuration"
    /\ call.class = ZScoresExpectationType
    /\ last = NoOutcome
    /\ last' = ExpectColumnValueZScoresToBeLessThan_validate_configuration(call.configuration)
    /\ UNCHANGED <<column, configuration, call>>

RegexValidateConfigurationCall ==
    /\ call.op = "validate_configuration"
    /\ call.class = RegexExpectationType
    /\ last = NoOutcome
    /\ last' = ExpectColumnValuesToMatchRegex_validate_configuration(call.configuration)
    /\ UNCHANGED <<column, configuration, call>>

\* The class and its configuration are drawn here; the instance the method is
\* called on holds no configuration.
InitValidateConfiguration ==
    /\ column = <<>>
    /\ configuration = None
    /\ call \in ValidateConfigurationCalls
    /\ last = NoOutcome

NextValidateConfiguration ==
    \/ LengthsValidateConfigurationCall
    \/ ZScoresValidateConfigurationCall
    \/ RegexValidateConfigurationCall

SpecValidateConfiguration == InitValidateConfiguration /\ [][NextValidateConfiguration]_vars

---------------------------------------------------------------------------
(* Calls of metrics_validate on a batch *)

MostlyValues == {<<1, 2>>}

\* The kwargs of the configurations tried: a column and a lower bound, with or
\* without mostly and result_format.
KwargsSet ==
    { ("column" :> "a") @@ ("min_value" :> <<1, 1>>) @@ m @@ r :
        m \in {<<>>} \cup {("mostly" :> q) : q \in MostlyValues},
        r \in {<<>>, ("result_format" :> "COMPLETE")} }

\* Configurations a constructor refuses: a mostly out of range, and the type
\* of another expectation.
MalformedConfigurations ==
    { [expectation_type |-> ExpectationType,
       kwargs |-> ("column" :> "a") @@ ("min_value" :> <<1, 1>>) @@ ("mostly" :> <<3, 2>>)],
      [expectation_type |-> OtherExpectationType,
       kwargs |-> ("column" :> "a") @@ ("min_value" :> <<1, 1>>)] }

Configurations ==
    {[expectation_type |-> ExpectationType, kwargs |-> k] : k \in KwargsSet}

\* The _configuration of a constructed instance: none, or one the constructor
\* accepted.
OptionalConfigurations ==
    {c \in {None} \cup {Some(c) : c \in Configurations} : init(c).outcome.kind = "return"}

\* The configuration argument of a call: none, or any configuration.
ConfigurationArguments ==
    {None} \cup {Some(c) : c \in Configurations \cup MalformedConfigurations}

RuntimeConfigurations ==
    {None, Some(<<>>)} \cup {Some(("result_format" :> t)) : t \in ResultFormatNames}

ExecutionEngines == {"PandasExecutionEngine", "SqlAlchemyExecutionEngine"}

\* The resolved metrics handed to metrics_validate: exactly those the call
\* requests, every metric of the batch, only the two counts, or every metric
\* with the null count resolved to None.
MetricsChoices == {"requested", "all", "counts", "null_count_none"}

MetricsArg(choice, col, self_config, config_arg, runtime_configuration, execution_engine) ==
    LET all == ResolvedMetrics(col)
        config == IF ~IsNone(config_arg) THEN config_arg ELSE self_config
    IN  IF choice = "requested" /\ ~IsNone(config)
        THEN Restrict(all, get_validation_dependencies(
                               Val(config), execution_engine,
                               runtime_configuration).metrics)
        ELSE IF choice = "counts"
        THEN Restrict(all, {NonnullUnexpectedCount, MapUnexpectedCount})
        ELSE IF choice = "null_count_none"
        THEN (NonnullUnexpectedCount :> NoneCount) @@ all
        ELSE all

MetricsValidateCall ==
    /\ call.op = "metrics_validate"
    /\ last = NoOutcome
    /\ last' = metrics_validate(configuration, call.metrics, call.configuration,
                                call.runtime_configuration, call.execution_engine)
    /\ UNCHANGED <<column, configuration, call>>

\* The instance, the batch and the inputs of the call are drawn here;
\* MetricsValidateCall makes the call.
Init ==
    /\ column \in Columns
    /\ configuration \in OptionalConfigurations
    /\ \E config_arg \in ConfigurationArguments,
          runtime_configuration \in RuntimeConfigurations,
          execution_engine \in ExecutionEngines,
          choice \in MetricsChoices :
           call = [op |-> "metrics_validate",
                   metrics |-> MetricsArg(choice, column, configuration, config_arg,
                                          runtime_configuration, execution_engine),
                   exact |-> (choice = "requested"),
                   configuration |-> config_arg,
                   runtime_configuration |-> runtime_configuration,
                   execution_engine |-> execution_engine]
    /\ last = NoOutcome

Next == MetricsValidateCall

Spec == Init /\ [][Next]_vars

---------------------------------------------------------------------------
(* Calls of get_validation_dependencies with a configuration *)

GetValidationDependenciesCall ==
    /\ call.op = "get_validation_dependencies"
    /\ last = NoOutcome
    /\ last' = Return(get_validation_dependencies(Val(call.configuration), call.execution_engine, call.runtime_configuration))
    /\ UNCHANGED <<column, configuration, call>>

\* The instance and the arguments of the call are drawn here;
\* GetValidationDependenciesCall makes the call.
InitDependencies ==
    /\ column = <<>>
    /\ configuration \in OptionalConfigurations
    /\ \E config_arg \in ConfigurationArguments \ {None},
          runtime_configuration \in RuntimeConfigurations,
          execution_engine \in ExecutionEngines :
           call = [op |-> "get_validation_dependencies",
                   configuration |-> config_arg,
                   runtime_configuration |-> runtime_configuration,
                   execution_engine |-> execution_engine]
    /\ last = NoOutcome

NextDependencies == GetValidationDependenciesCall

SpecDependencies == InitDependencies /\ [][NextDependencies]_vars

---------------------------------------------------------------------------
(* Sequences of calls on one instance, with the objects the caller keeps:    *)
(* the instance's stored configuration and a configuration of the caller's  *)

\* The configuration object that was handed to get_runtime_kwargs, after the
\* call: line 246 rebinds the local name to a deep copy, and the update of
\* line 249 is made on the copy.
get_runtime_kwargs_configuration_InPlace(config, runtime_configuration) ==
    IF Truthy(runtime_configuration)
    THEN [config EXCEPT !.kwargs = Val(runtime_configuration) @@ @]
    ELSE config

get_runtime_kwargs_configuration(config, runtime_configuration) == config

\* metrics_validate that keeps a given configuration on an instance that has
\* none.
metrics_validate_self_StoresArgument(self_config, config_arg) ==
    IF IsNone(self_config) THEN config_arg ELSE self_config

\* The instance's _configuration after metrics_validate: lines 151-152 bind
\* the local name only, and nothing in 144-169 or 540-585 assigns to self.
metrics_validate_self(self_config, config_arg) == self_config

\* The batches of the sequences: one row, null or of a wrong length.
SequenceColumns == {<<None>>, <<Some(1)>>}
SequenceEngine == "PandasExecutionEngine"
Targets == {"own", "given"}
\* The caller's configurations; the runtime configurations of the calls are
\* none, empty, or one that names a tier or an unknown result_format.
SequenceGiven == {c \in Configurations : "mostly" \notin DOMAIN c.kwargs}
SequenceRuntimeConfigurations == RuntimeConfigurations
SequenceOps == {"start", "get_runtime_kwargs", "get_validation_dependencies", "metrics_validate", "_validate"}
SequenceMetricsChoices == {"all", "counts"}

\* The configuration a call is about: the caller's, or the instance's own.
TargetConfiguration(target, self_config, given) ==
    IF target = "given" THEN Some(given) ELSE self_config

\* The record of a call of a sequence: its arguments, the caller's
\* configuration object and resolved-metrics mapping as the call leaves them,
\* and what has happened before and in it (targets that got a runtime
\* override, whether a call failed).
SequenceCall(op, target, runtime_configuration, choice, metrics, given, outcome) ==
    [op |-> op, target |-> target, runtime_configuration |-> runtime_configuration,
     choice |-> choice, metrics |-> metrics, given |-> given,
     own0 |-> call.own0, given0 |-> call.given0,
     overridden |-> call.overridden \cup (IF Truthy(runtime_configuration) /\ op # "_validate" THEN {target} ELSE {}),
     failed |-> call.failed \/ outcome.kind = "raise"]

\* get_runtime_kwargs(configuration, runtime_configuration): for the
\* instance's own configuration the argument is None, resolved at 242-243.
GetRuntimeKwargsCall ==
    \E target \in Targets, runtime_configuration \in SequenceRuntimeConfigurations :
        LET config == TargetConfiguration(target, configuration, call.given)
            outcome == IF IsNone(config)
                       THEN Raise("InvalidExpectationConfigurationError")
                       ELSE Return(get_runtime_kwargs(Val(config), runtime_configuration))
            after == IF IsNone(config) THEN config
                     ELSE Some(get_runtime_kwargs_configuration(Val(config), runtime_configuration))
        IN  /\ call.op \in SequenceOps
            /\ last' = outcome
            /\ configuration' = IF target = "own" THEN after ELSE configuration
            /\ call' = SequenceCall("get_runtime_kwargs", target, runtime_configuration, "all", <<>>,
                                    IF target = "given" THEN Val(after) ELSE call.given, outcome)
            /\ UNCHANGED column

\* get_validation_dependencies(configuration, execution_engine,
\* runtime_configuration) with a configuration object: the caller's, or the
\* one the instance holds.
SequenceDependenciesCall ==
    \E target \in Targets, runtime_configuration \in SequenceRuntimeConfigurations :
        LET config == TargetConfiguration(target, configuration, call.given)
            outcome == Return(get_validation_dependencies(Val(config), SequenceEngine, runtime_configuration))
            after == get_runtime_kwargs_configuration(Val(config), runtime_configuration)
        IN  /\ call.op \in SequenceOps
            /\ ~IsNone(config)
            /\ last' = outcome
            /\ configuration' = IF target = "own" THEN Some(after) ELSE configuration
            /\ call' = SequenceCall("get_validation_dependencies", target, runtime_configuration, "all", <<>>,
                                    IF target = "given" THEN after ELSE call.given, outcome)
            /\ UNCHANGED column

\* metrics_validate(metrics, configuration, runtime_configuration,
\* execution_engine); for the instance's own configuration the argument is
\* None.
SequenceMetricsValidateCall ==
    \E target \in Targets, runtime_configuration \in SequenceRuntimeConfigurations, choice \in SequenceMetricsChoices :
        LET config_arg == IF target = "given" THEN Some(call.given) ELSE None
            config == TargetConfiguration(target, configuration, call.given)
            metrics == MetricsArg(choice, column, configuration, config_arg, runtime_configuration, SequenceEngine)
            outcome == metrics_validate(configuration, metrics, config_arg, runtime_configuration, SequenceEngine)
            after == IF IsNone(config) THEN config
                     ELSE Some(get_runtime_kwargs_configuration(Val(config), runtime_configuration))
        IN  /\ call.op \in SequenceOps
            /\ last' = outcome
            /\ configuration' = metrics_validate_self(IF target = "own" THEN after ELSE configuration, config_arg)
            /\ call' = SequenceCall("metrics_validate", target, runtime_configuration, choice, metrics,
                                    IF target = "given" THEN Val(after) ELSE call.given, outcome)
            /\ UNCHANGED column

\* _validate(configuration, metrics, runtime_configuration,
\* execution_engine) with a configuration object and every metric or the
\* counts only: it reads the configuration and the mapping (548-580).
SequenceValidateCall ==
    \E target \in Targets, runtime_configuration \in SequenceRuntimeConfigurations, choice \in SequenceMetricsChoices :
        LET config == TargetConfiguration(target, configuration, call.given)
            metrics == MetricsArg(choice, column, configuration, config, runtime_configuration, SequenceEngine)
            outcome == validate(configuration, Val(config), metrics, runtime_configuration, SequenceEngine)
        IN  /\ call.op \in SequenceOps
            /\ ~IsNone(config)
            /\ last' = outcome
            /\ call' = SequenceCall("_validate", target, runtime_configuration, choice, metrics, call.given, outcome)
            /\ UNCHANGED <<column, configuration>>

\* An instance, constructed with or without a configuration, a configuration
\* object of the caller's, and a batch; no call has been made.
InitSequence ==
    /\ column \in SequenceColumns
    /\ configuration \in OptionalConfigurations
    /\ \E given \in SequenceGiven :
           call = [op |-> "start", target |-> "own", runtime_configuration |-> None,
                   metrics |-> <<>>, choice |-> "all", given |-> given,
                   own0 |-> configuration, given0 |-> given,
                   overridden |-> {}, failed |-> FALSE]
    /\ last = NoOutcome

NextSequence ==
    \/ GetRuntimeKwargsCall
    \/ SequenceDependenciesCall
    \/ SequenceMetricsValidateCall
    \/ SequenceValidateCall

SpecSequence == InitSequence /\ [][NextSequence]_vars

---------------------------------------------------------------------------
(* The value-lengths-between condition:                                      *)
(* ColumnValuesValueLengthsBetween._pandas (column_value_lengths_between.py) *)

\* The truth value of a strict flag: None and False are false.
IsStrict(flag) == ~IsNone(flag) /\ Val(flag)

\* pandas Series.between(left, right, inclusive) on one element.
Between(x, left, right, inclusive) ==
    IF inclusive THEN left <= x /\ x <= right ELSE left < x /\ x < right

\* ColumnValuesValueLengthsBetween_pandas with the non-strict two-bound case
\* made exclusive.
ColumnValuesValueLengthsBetween_pandas_Exclusive(column_length, min_value, max_value, strict_min, strict_max) ==
    IF ~IsNone(min_value) /\ ~IsNone(max_value)
    THEN IF IsStrict(strict_min) /\ IsStrict(strict_max)
         THEN Return(Between(column_length, Val(min_value), Val(max_value), FALSE))
         ELSE IF IsStrict(strict_min) /\ ~IsStrict(strict_max)
         THEN Return(column_length > Val(min_value) /\ column_length <= Val(max_value))
         ELSE IF ~IsStrict(strict_min) /\ IsStrict(strict_max)
         THEN Return(column_length >= Val(min_value) /\ column_length < Val(max_value))
         ELSE Return(Between(column_length, Val(min_value), Val(max_value), FALSE))
    ELSE IF IsNone(min_value) /\ ~IsNone(max_value)
    THEN IF IsStrict(strict_max) THEN Return(column_length < Val(max_value))
         ELSE Return(column_length <= Val(max_value))
    ELSE IF ~IsNone(min_value) /\ IsNone(max_value)
    THEN IF IsStrict(strict_min) THEN Return(column_length > Val(min_value))
         ELSE Return(column_length >= Val(min_value))
    ELSE Raise("ValueError")

\* ColumnValuesValueLengthsBetween._pandas (21-66) on one element of
\* column_lengths: whether the length meets the condition.
ColumnValuesValueLengthsBetween_pandas(column_length, min_value, max_value, strict_min, strict_max) ==
    IF ~IsNone(min_value) /\ ~IsNone(max_value)
    THEN IF IsStrict(strict_min) /\ IsStrict(strict_max)
         THEN Return(Between(column_length, Val(min_value), Val(max_value), FALSE))
         ELSE IF IsStrict(strict_min) /\ ~IsStrict(strict_max)
         THEN Return(column_length > Val(min_value) /\ column_length <= Val(max_value))
         ELSE IF ~IsStrict(strict_min) /\ IsStrict(strict_max)
         THEN Return(column_length >= Val(min_value) /\ column_length < Val(max_value))
         ELSE Return(Between(column_length, Val(min_value), Val(max_value), TRUE))
    ELSE IF IsNone(min_value) /\ ~IsNone(max_value)
    THEN IF IsStrict(strict_max) THEN Return(column_length < Val(max_value))
         ELSE Return(column_length <= Val(max_value))
    ELSE IF ~IsNone(min_value) /\ IsNone(max_value)
    THEN IF IsStrict(strict_min) THEN Return(column_length > Val(min_value))
         ELSE Return(column_length >= Val(min_value))
    ELSE Raise("ValueError")

\* _pandas_value_length_between with >= for a strict lower bound under a
\* non-strict upper bound.
pandas_value_length_between_LowerInclusive(column_length, min_value, max_value, strict_min, strict_max) ==
    IF ~IsNone(min_value) /\ ~IsNone(max_value)
    THEN IF IsStrict(strict_min) /\ IsStrict(strict_max)
         THEN Return(Between(column_length, Val(min_value), Val(max_value), FALSE))
         ELSE IF IsStrict(strict_min) /\ ~IsStrict(strict_max)
         THEN Return(column_length >= Val(min_value) /\ column_length <= Val(max_value))
         ELSE IF ~IsStrict(strict_min) /\ IsStrict(strict_max)
         THEN Return(column_length >= Val(min_value) /\ column_length < Val(max_value))
         ELSE Return(Between(column_length, Val(min_value), Val(max_value), TRUE))
    ELSE IF IsNone(min_value) /\ ~IsNone(max_value)
    THEN IF IsStrict(strict_max) THEN Return(column_length < Val(max_value))
         ELSE Return(column_length <= Val(max_value))
    ELSE IF ~IsNone(min_value) /\ IsNone(max_value)
    THEN IF IsStrict(strict_min) THEN Return(column_length > Val(min_value))
         ELSE Return(column_length >= Val(min_value))
    ELSE Raise("UnboundLocalError")

\* ExpectColumnValueLengthsToBeBetween._pandas_value_length_between (215-259) on
\* one element of column_lengths. No branch assigns metric_series when both
\* bounds are None, and the return statement then reads an unbound local.
pandas_value_length_between(column_length, min_value, max_value, strict_min, strict_max) ==
    IF ~IsNone(min_value) /\ ~IsNone(max_value)
    THEN IF IsStrict(strict_min) /\ IsStrict(strict_max)
         THEN Return(Between(column_length, Val(min_value), Val(max_value), FALSE))
         ELSE IF IsStrict(strict_min) /\ ~IsStrict(strict_max)
         THEN Return(column_length > Val(min_value) /\ column_length <= Val(max_value))
         ELSE IF ~IsStrict(strict_min) /\ IsStrict(strict_max)
         THEN Return(column_length >= Val(min_value) /\ column_length < Val(max_value))
         ELSE Return(Between(column_length, Val(min_value), Val(max_value), TRUE))
    ELSE IF IsNone(min_value) /\ ~IsNone(max_value)
    THEN IF IsStrict(strict_max) THEN Return(column_length < Val(max_value))
         ELSE Return(column_length <= Val(max_value))
    ELSE IF ~IsNone(min_value) /\ IsNone(max_value)
    THEN IF IsStrict(strict_min) THEN Return(column_length > Val(min_value))
         ELSE Return(column_length >= Val(min_value))
    ELSE Raise("UnboundLocalError")

\* ExpectColumnValueLengthsToBeBetween._sqlalchemy_value_length_between
\* (268-312): the truth value of the returned SQL condition for a row whose
\* length(column) is column_length. With both bounds None the function falls
\* off its end and returns None, no condition at all.
sqlalchemy_value_length_between(column_length, min_value, max_value, strict_min, strict_max) ==
    IF ~IsNone(min_value) /\ ~IsNone(max_value)
    THEN IF IsStrict(strict_min) /\ IsStrict(strict_max)
         THEN Return(column_length > Val(min_value) /\ column_length < Val(max_value))
         ELSE IF IsStrict(strict_min) /\ ~IsStrict(strict_max)
         THEN Return(column_length > Val(min_value) /\ column_length <= Val(max_value))
         ELSE IF ~IsStrict(strict_min) /\ IsStrict(strict_max)
         THEN Return(column_length >= Val(min_value) /\ column_length < Val(max_value))
         ELSE Return(column_length >= Val(min_value) /\ column_length <= Val(max_value))
    ELSE IF IsNone(min_value) /\ ~IsNone(max_value)
    THEN IF IsStrict(strict_max) THEN Return(column_length < Val(max_value))
         ELSE Return(column_length <= Val(max_value))
    ELSE IF ~IsNone(min_value) /\ IsNone(max_value)
    THEN IF IsStrict(strict_min) THEN Return(column_length > Val(min_value))
         ELSE Return(column_length >= Val(min_value))
    ELSE Return(None)

\* The three implementations of the condition.
ConditionOps == {"value_lengths_between", "_pandas_value_length_between", "_sqlalchemy_value_length_between"}

Lengths == 0..MaxLen
LengthBounds == {None} \cup {Some(n) : n \in 0..MaxLen}
StrictFlags == {None, Some(FALSE), Some(TRUE)}

ConditionCall ==
    /\ call.op = "value_lengths_between"
    /\ last = NoOutcome
    /\ last' = ColumnValuesValueLengthsBetween_pandas(call.column_length, call.min_value, call.max_value, call.strict_min, call.strict_max)
    /\ UNCHANGED <<column, configuration, call>>

PandasValueLengthBetweenCall ==
    /\ call.op = "_pandas_value_length_between"
    /\ last = NoOutcome
    /\ last' = pandas_value_length_between(call.column_length, call.min_value, call.max_value, call.strict_min, call.strict_max)
    /\ UNCHANGED <<column, configuration, call>>

SqlalchemyValueLengthBetweenCall ==
    /\ call.op = "_sqlalchemy_value_length_between"
    /\ last = NoOutcome
    /\ last' = sqlalchemy_value_length_between(call.column_length, call.min_value, call.max_value, call.strict_min, call.strict_max)
    /\ UNCHANGED <<column, configuration, call>>

\* The implementation, the length and the value kwargs are drawn here; the
\* call actions apply the implementation drawn.
InitCondition ==
    /\ column = <<>>
    /\ configuration = None
    /\ \E op \in ConditionOps, length \in Lengths, min_value \in LengthBounds, max_value \in LengthBounds,
          strict_min \in StrictFlags, strict_max \in StrictFlags :
           call = [op |-> op,
                   column_length |-> length,
                   min_value |-> min_value,
                   max_value |-> max_value,
                   strict_min |-> strict_min,
                   strict_max |-> strict_max]
    /\ last = NoOutcome

NextCondition ==
    \/ ConditionCall
    \/ PandasValueLengthBetweenCall
    \/ SqlalchemyValueLengthBetweenCall

SpecCondition == InitCondition /\ [][NextCondition]_vars

---------------------------------------------------------------------------
(* The dependency of the value-lengths-between metric:                       *)
(* ColumnValuesValueLengthsBetween.get_evaluation_dependencies and           *)
(* ColumnValuesValueLengths (column_value_lengths.py)                        *)

\* ColumnValuesValueLengths.function_metric_name and function_value_keys
\* (column_value_lengths.py 16-17)
function_metric_name == "column_values.value_lengths"
function_value_keys == {"value"}

\* The resolved metrics ColumnValuesValueLengthsBetween._pandas reads from
\* _metrics (line 31).
ConditionReads == {"column_values.value_lengths"}

\* MetricConfiguration(metric_name, metric_domain_kwargs) with no value kwargs
\* given: the node has none.
MetricConfiguration(metric_name, metric_domain_kwargs) ==
    [metric_name |-> metric_name, metric_domain_kwargs |-> metric_domain_kwargs, metric_value_kwargs |-> <<>>]

\* ColumnValuesValueLengthsBetween.get_evaluation_dependencies (68-86): the
\* dependencies of the metric node, by name.
get_evaluation_dependencies(metric) ==
    ("column_values.value_lengths" :> MetricConfiguration("column_values.value_lengths", metric.metric_domain_kwargs))

\* The domain kwargs of a metric node: a column, with or without a row
\* condition.
MetricDomainKwargs ==
    { ("column" :> c) @@ r : c \in {"a", "b"}, r \in {<<>>, ("row_condition" :> "x > 0")} }

\* The value-lengths-between nodes: condition_value_keys (14-19) as value
\* kwargs.
MetricNodes ==
    { [metric_name |-> condition_metric_name, metric_domain_kwargs |-> d,
       metric_value_kwargs |-> [min_value |-> lo, max_value |-> hi, strict_min |-> smin, strict_max |-> smax]] :
        d \in MetricDomainKwargs, lo \in LengthBounds, hi \in LengthBounds,
        smin \in {None, Some(TRUE)}, smax \in {None, Some(TRUE)} }

GetEvaluationDependenciesCall ==
    /\ call.op = "get_evaluation_dependencies"
    /\ last = NoOutcome
    /\ last' = Return(get_evaluation_dependencies(call.metric))
    /\ UNCHANGED <<column, configuration, call>>

\* The requesting metric node is drawn here.
InitEvaluationDependencies ==
    /\ column = <<>>
    /\ configuration = None
    /\ \E metric \in MetricNodes : call = [op |-> "get_evaluation_dependencies", metric |-> metric]
    /\ last = NoOutcome

NextEvaluationDependencies == GetEvaluationDependenciesCall

SpecEvaluationDependencies == InitEvaluationDependencies /\ [][NextEvaluationDependencies]_vars

---------------------------------------------------------------------------
(* _calc_map_expectation_success (expectation.py 588-619) *)

\* _calc_map_expectation_success with > in place of >= (607).
calc_map_expectation_success_Strict(success_count, nonnull_count, mostly) ==
    IF nonnull_count > 0
    THEN LET percent_success == Rat(success_count, nonnull_count)
         IN  [success |-> IF ~IsNone(mostly)
                          THEN ~RatGeq(Val(mostly), percent_success)
                          ELSE nonnull_count - success_count = 0,
              percent_success |-> Some(percent_success)]
    ELSE [success |-> TRUE, percent_success |-> None]

\* _calc_map_expectation_success: the pair (success, percent_success).
calc_map_expectation_success(success_count, nonnull_count, mostly) ==
    IF nonnull_count > 0
    THEN LET percent_success == Rat(success_count, nonnull_count)
         IN  [success |-> IF ~IsNone(mostly)
                          THEN RatGeq(percent_success, Val(mostly))
                          ELSE nonnull_count - success_count = 0,
              percent_success |-> Some(percent_success)]
    ELSE [success |-> TRUE, percent_success |-> None]

\* The counts of a batch of at most MaxRows rows, and the thresholds: none,
\* 0, 1/2, 3/4, 1.
Counts == 0..MaxRows
CalcMostly == {None, Some(<<0, 1>>), Some(<<1, 2>>), Some(<<3, 4>>), Some(<<1, 1>>)}

CalcCall ==
    /\ call.op = "_calc_map_expectation_success"
    /\ last = NoOutcome
    /\ last' = Return(calc_map_expectation_success(call.success_count, call.nonnull_count, call.mostly))
    /\ UNCHANGED <<column, configuration, call>>

\* The counts and the threshold are drawn here.
InitCalc ==
    /\ column = <<>>
    /\ configuration = None
    /\ \E success_count \in Counts, nonnull_count \in Counts, mostly \in CalcMostly :
           call = [op |-> "_calc_map_expectation_success", success_count |-> success_count,
                   nonnull_count |-> nonnull_count, mostly |-> mostly]
    /\ last = NoOutcome

NextCalc == CalcCall

SpecCalc == InitCalc /\ [][NextCalc]_vars

---------------------------------------------------------------------------
(* Properties of column-map validation, checked under Spec *)

ValidateDone == call.op = "metrics_validate" /\ last.kind # "none"
ValidateReturned == call.op = "metrics_validate" /\ last.kind = "return"

\* The call validates the instance's own configuration.
OwnConfiguration == IsNone(call.configuration) /\ ~IsNone(configuration)

\* The batch's number of non-null cells, and of non-null cells that fail the
\* map condition.
NonnullCount == RowCount(column) - NullCount(column)
Unexpected == UnexpectedCount(column)

\* The verbosity tier of a call that validates the instance's own configuration.
OwnTier == ValidateResultFormat(Val(configuration), call.runtime_configuration)
OwnMostly == Get(Val(configuration).kwargs, "mostly", DefaultMostly)

\* C1: with nonnull_count > 0 (rows minus null rows), validation through
\* metrics_validate gives success = true exactly when
\* 1 - unexpected_count / nonnull_count >= mostly, whatever the number of null
\* rows.
C1_SuccessIsNonnullRatio ==
    (ValidateReturned /\ OwnConfiguration /\ NonnullCount > 0) =>
        last.value.success =
            Some(RatGeq(<<NonnullCount - Unexpected, NonnullCount>>, OwnMostly))

\* C2: when nonnull_count is 0 (every row null, or no rows) validation gives
\* success = None, and the BASIC result holds neither missing_count nor
\* missing_percent.
C2_UndefinedWhenNoNonnull ==
    (ValidateReturned /\ OwnConfiguration /\ NonnullCount = 0) =>
        /\ IsNone(last.value.success)
        /\ OwnTier = "BASIC" =>
              /\ "missing_count" \notin DOMAIN last.value.result
              /\ "missing_percent" \notin DOMAIN last.value.result

\* C5: at each of the four tiers, when exactly the metrics that
\* get_validation_dependencies requests are resolved, metrics_validate
\* completes and returns a result: it uses no metric that was not requested.
C5_RequestedMetricsSuffice ==
    (ValidateDone /\ OwnConfiguration /\ call.exact /\ OwnTier \in TierNames) =>
        last.kind = "return"

\* The call names the configuration to validate.
ExplicitConfiguration == call.op = "metrics_validate" /\ ~IsNone(call.configuration)

\* C14: a configuration that is evaluated (here: passed explicitly to
\* metrics_validate) has been checked by validate_configuration first, so a
\* malformed or out-of-range configuration is rejected with
\* InvalidExpectationConfigurationError and no result is computed for it.
C14_ValidatedBeforeMetrics ==
    (ValidateDone /\ ExplicitConfiguration
        /\ validate_configuration(Val(call.configuration)).kind = "raise") =>
        /\ last.kind = "raise"
        /\ last.error = "InvalidExpectationConfigurationError"

\* C19: the threshold validation compares against is the mostly of the
\* configuration being validated (1 when it has none): validating an explicit
\* well-formed configuration has the outcome that validating it as the
\* instance's own configuration has, whatever the instance was constructed
\* with, also on an instance constructed without a configuration.
C19_MostlyOfValidatedConfiguration ==
    (ValidateDone /\ ExplicitConfiguration
        /\ validate_configuration(Val(call.configuration)).kind = "return") =>
        last = metrics_validate(call.configuration, call.metrics, None, call.runtime_configuration, call.execution_engine)

\* Every metric of the batch is in the resolved mapping of the call.
AllMetricsResolved ==
    {TableRowCount, NonnullUnexpectedCount, MapUnexpectedCount, MapUnexpectedValues, MapUnexpectedRows, MapUnexpectedIndexList} \subseteq DOMAIN call.metrics

\* 1 - u / c >= mostly, for counts u, c with c > 0 and a fraction mostly.
RatioMeetsMostly(u, c, mostly) == (c - u) * mostly[2] >= mostly[1] * c

\* C22: in _validate, with c the resolved column_values.nonnull.unexpected_count
\* and u the resolved <map_metric>.unexpected_count, success is
\* (1 - u/c >= mostly) when c > 0 and None when c = 0 or c is None, whatever u
\* and the row count are (validation of the instance's own configuration at
\* BASIC and above with every metric resolved).
C22_SuccessFromNullCount ==
    (ValidateDone /\ OwnConfiguration /\ AllMetricsResolved
        /\ OwnTier \in {"BASIC", "SUMMARY", "COMPLETE"}) =>
        LET c == call.metrics[NonnullUnexpectedCount]
            u == call.metrics[MapUnexpectedCount]
        IN  /\ last.kind = "return"
            /\ (c = NoneCount \/ c = 0) => IsNone(last.value.success)
            /\ (c # NoneCount /\ c > 0) =>
                  last.value.success = Some(RatioMeetsMostly(u, c, OwnMostly))

\* C22 without the case of c resolved to None.
C22_SuccessFromKnownNullCount ==
    (ValidateDone /\ OwnConfiguration /\ AllMetricsResolved
        /\ OwnTier \in {"BASIC", "SUMMARY", "COMPLETE"}
        /\ call.metrics[NonnullUnexpectedCount] # NoneCount) =>
        LET c == call.metrics[NonnullUnexpectedCount]
            u == call.metrics[MapUnexpectedCount]
        IN  /\ last.kind = "return"
            /\ c = 0 => IsNone(last.value.success)
            /\ c > 0 => last.value.success = Some(RatioMeetsMostly(u, c, OwnMostly))

---------------------------------------------------------------------------
(* Properties of the metric dependencies, checked under SpecDependencies *)

DependenciesDone == call.op = "get_validation_dependencies" /\ last.kind = "return"

\* The verbosity tier the call asks for: the runtime override, else the
\* configuration's result_format, else BASIC.
RequestedTier ==
    LET runtime == call.runtime_configuration
        kwargs == Val(call.configuration).kwargs
    IN  IF ~IsNone(runtime) /\ "result_format" \in DOMAIN Val(runtime)
        THEN Val(runtime).result_format
        ELSE IF "result_format" \in DOMAIN kwargs THEN kwargs.result_format
        ELSE "BASIC"

BaseMetrics == {"column_values.nonnull.unexpected_count", map_metric \o ".unexpected_count"}
BasicMetrics == BaseMetrics \cup {"table.row_count", map_metric \o ".unexpected_values"}

\* C15: the metric dependencies always contain <map_metric>.unexpected_count
\* and column_values.nonnull.unexpected_count; BOOLEAN_ONLY adds nothing,
\* BASIC adds exactly table.row_count and <map_metric>.unexpected_values,
\* COMPLETE adds those plus <map_metric>.unexpected_rows and, only with the
\* Pandas engine, <map_metric>.unexpected_index_list.
C15_DependenciesPerTier ==
    DependenciesDone =>
        LET metrics == last.value.metrics
            pandas == call.execution_engine = "PandasExecutionEngine"
        IN  /\ BaseMetrics \subseteq metrics
            /\ RequestedTier = "BOOLEAN_ONLY" => metrics = BaseMetrics
            /\ RequestedTier = "BASIC" => metrics = BasicMetrics
            /\ RequestedTier = "COMPLETE" =>
                  metrics = BasicMetrics \cup {map_metric \o ".unexpected_rows"}
                            \cup (IF pandas THEN {map_metric \o ".unexpected_index_list"}
                                  ELSE {})

\* COMPLETE asked at run time of a configuration without result_format, on an
\* engine that is not Pandas: unexpected_rows requested, the index list not.
C15_Witness ==
    /\ DependenciesDone
    /\ RequestedTier = "COMPLETE"
    /\ "result_format" \notin DOMAIN Val(call.configuration).kwargs
    /\ call.execution_engine = "SqlAlchemyExecutionEngine"
    /\ (map_metric \o ".unexpected_rows") \in last.value.metrics
    /\ (map_metric \o ".unexpected_index_list") \notin last.value.metrics

\* C16: at SUMMARY with the Pandas engine the dependencies contain
\* <map_metric>.unexpected_index_list.
C16_SummaryRequestsIndexList ==
    (DependenciesDone /\ RequestedTier = "SUMMARY"
        /\ call.execution_engine = "PandasExecutionEngine") =>
        (map_metric \o ".unexpected_index_list") \in last.value.metrics

\* The names under the condition metric that ColumnValuesValueLengthsBetween
\* registers: the condition itself and its suffixed metrics.
ConditionMetricNames ==
    {condition_metric_name} \cup {condition_metric_name \o suffix : suffix \in MapMetricSuffixes}

\* The map-metric names a call requests: all but the row count and the
\* null count.
RequestedMapMetrics == last.value.metrics \ {TableRowCount, NonnullUnexpectedCount}

\* C27: every metric name ExpectColumnValueLengthsToBeBetween requests for its
\* map metric (map_metric with the suffixes .unexpected_count,
\* .unexpected_values, .unexpected_rows, .unexpected_index_list) is a name under
\* the condition metric name that ColumnValuesValueLengthsBetween registers,
\* so that a lookup of the requested names finds that metric.
C27_RequestedNamesAreRegistered ==
    DependenciesDone => RequestedMapMetrics \subseteq ConditionMetricNames

---------------------------------------------------------------------------
(* Properties of _format_map_output, checked under SpecFormat *)

FormatDone == call.op = "format_map_output" /\ last.kind # "none"
FormatReturned == call.op = "format_map_output" /\ last.kind = "return"
CallTier == call.result_format.result_format
CallCap == call.result_format.partial_unexpected_count

TierIndex(t) == CHOOSE i \in 1..Len(Tiers) : Tiers[i] = t

\* The outcome of the recorded call had it been made at tier t.
OutcomeAtTier(t) ==
    FormatOutcome([call EXCEPT !.result_format.result_format = t])

\* Every field of the return object a, at top level and inside result, is a
\* field of b with the same value.
FieldsWithin(a, b) ==
    /\ DOMAIN a \subseteq DOMAIN b
    /\ a.success = b.success
    /\ "result" \in DOMAIN a =>
          /\ DOMAIN a.result \subseteq DOMAIN b.result
          /\ \A k \in DOMAIN a.result : a.result[k] = b.result[k]

\* C3: for tiers T1 below T2 in BOOLEAN_ONLY < BASIC < SUMMARY < COMPLETE and
\* the same inputs, when the formatter returns at both tiers every field of the
\* T1 output (top level and inside result) is in the T2 output with the same
\* value.
C3_TiersAreAdditive ==
    (FormatReturned /\ CallTier \in TierNames) =>
        \A i \in 1..Len(Tiers) :
            (i < TierIndex(CallTier) /\ OutcomeAtTier(Tiers[i]).kind = "return") =>
                FieldsWithin(OutcomeAtTier(Tiers[i]).value, last.value)

\* A COMPLETE result where the cap cuts the list and the counts are present.
C3_Witness ==
    /\ FormatReturned
    /\ CallTier = "COMPLETE"
    /\ CallCap = 1
    /\ Len(Val(call.unexpected_list)) = 2
    /\ ~IsNone(call.nonnull_count)
    /\ OutcomeAtTier("BASIC").kind = "return"

\* C4: at BOOLEAN_ONLY the formatter returns an object whose only field is
\* success, equal to the success argument, whatever the other arguments are
\* (None counts and None lists included).
C4_BooleanOnlyIsSuccessAlone ==
    (FormatDone /\ CallTier = "BOOLEAN_ONLY") =>
        /\ last.kind = "return"
        /\ DOMAIN last.value = {"success"}
        /\ last.value.success = call.success

C4_Witness ==
    /\ FormatReturned
    /\ CallTier = "BOOLEAN_ONLY"
    /\ IsNone(call.element_count)
    /\ IsNone(call.unexpected_count)
    /\ IsNone(call.unexpected_list)
    /\ call.success = Some(TRUE)

\* q is the fraction num / den * 100.
IsPercentOf(q, num, den) == ~IsNone(q) /\ Val(q)[1] * den = num * 100 * Val(q)[2]

\* C6: at BASIC and above, unexpected_percent is unexpected_count /
\* element_count * 100 when element_count > 0 and None when element_count = 0;
\* when nonnull_count is known, unexpected_percent_nonmissing is
\* unexpected_count / nonnull_count * 100 when nonnull_count > 0 and None when
\* nonnull_count = 0.
C6_Percentages ==
    (FormatReturned /\ CallTier \in {"BASIC", "SUMMARY", "COMPLETE"}) =>
        LET r == last.value.result
            ec == Val(call.element_count)
        IN  /\ ec > 0 => IsPercentOf(r.unexpected_percent,
                                     Val(call.unexpected_count), ec)
            /\ ec = 0 => IsNone(r.unexpected_percent)
            /\ ~IsNone(call.nonnull_count) =>
                  /\ "unexpected_percent_nonmissing" \in DOMAIN r
                  /\ Val(call.nonnull_count) > 0 =>
                        IsPercentOf(r.unexpected_percent_nonmissing,
                                    Val(call.unexpected_count),
                                    Val(call.nonnull_count))
                  /\ Val(call.nonnull_count) = 0 =>
                        IsNone(r.unexpected_percent_nonmissing)

\* Three rows, one of them null and one unexpected: 100/3 and 50 percent.
C6_Witness ==
    /\ FormatReturned
    /\ CallTier = "BASIC"
    /\ call.element_count = Some(3)
    /\ call.nonnull_count = Some(2)
    /\ call.unexpected_count = Some(1)
    /\ last.value.result.unexpected_percent = Some(<<100, 3>>)
    /\ last.value.result.unexpected_percent_nonmissing = Some(<<50, 1>>)

\* The distinct values of lst with their counts, by count descending and then
\* value ascending, cut to cap entries.
TopCounts(lst, cap) ==
    LET all == CounterItems(lst)
        items == Slice(Sorted(all, CountDescendingValueAscending(all)), cap)
    IN  [i \in 1..Len(items) |-> [value |-> items[i][1], count |-> items[i][2]]]

\* C7: at SUMMARY and COMPLETE with a positive cap, partial_unexpected_counts
\* is the first cap entries of the distinct unexpected values ordered by count
\* descending and then value ascending, each with its number of occurrences,
\* also when values tie in count at the cap boundary.
C7_CountsAreTopOfFullOrder ==
    (FormatReturned /\ CallTier \in {"SUMMARY", "COMPLETE"} /\ CallCap > 0
        /\ Hashable(Val(call.unexpected_list))) =>
        last.value.result.partial_unexpected_counts
            = TopCounts(Val(call.unexpected_list), CallCap)

\* C8: at SUMMARY and COMPLETE, partial_unexpected_index_list and
\* partial_unexpected_counts are added exactly when the cap is positive; when
\* added, partial_unexpected_index_list is the prefix of unexpected_index_list
\* with at most cap elements, or None when unexpected_index_list is None.
C8_SummaryFieldsIffPositiveCap ==
    (FormatReturned /\ CallTier \in {"SUMMARY", "COMPLETE"}) =>
        LET r == last.value.result
            uil == call.unexpected_index_list
        IN  /\ "partial_unexpected_index_list" \in DOMAIN r <=> CallCap > 0
            /\ "partial_unexpected_counts" \in DOMAIN r <=> CallCap > 0
            /\ CallCap > 0 =>
                  r.partial_unexpected_index_list =
                      IF IsNone(uil) THEN None
                      ELSE Some(SubSeq(Val(uil), 1, Min(CallCap, Len(Val(uil)))))

C8_Witness ==
    /\ FormatReturned
    /\ CallTier = "SUMMARY"
    /\ CallCap = 1
    /\ ~IsNone(call.unexpected_index_list)
    /\ Len(Val(call.unexpected_index_list)) = 2
    /\ Len(Val(last.value.result.partial_unexpected_index_list)) = 1

\* C9: at COMPLETE the result holds unexpected_list and unexpected_index_list
\* equal to the full input lists, and every field the SUMMARY tier produces.
C9_CompleteHasFullLists ==
    (FormatReturned /\ CallTier = "COMPLETE") =>
        /\ last.value.result.unexpected_list = call.unexpected_list
        /\ last.value.result.unexpected_index_list = call.unexpected_index_list
        /\ OutcomeAtTier("SUMMARY").kind = "return"
        /\ FieldsWithin(OutcomeAtTier("SUMMARY").value, last.value)

\* A COMPLETE result whose lists are longer than the cap.
C9_Witness ==
    /\ FormatReturned
    /\ CallTier = "COMPLETE"
    /\ CallCap = 1
    /\ Len(Val(call.unexpected_list)) = 3
    /\ ~IsNone(call.unexpected_index_list)
    /\ Len(Val(last.value.result.unexpected_list)) = 3

\* Line 730: the error raised for an unknown result_format.
UnknownResultFormatError == "ValueError"

\* C10: for every result_format name outside the four tiers and every value of
\* the other inputs, formatting fails with the unknown-result-format error and
\* returns nothing; it never fails with another error raised while computing
\* the fields of a tier.
C10_UnknownFormatAlwaysItsOwnError ==
    (FormatDone /\ CallTier \notin TierNames) =>
        /\ last.kind = "raise"
        /\ last.error = UnknownResultFormatError

\* The arguments the fields of BASIC and above are computed from, other than
\* nonnull_count and unexpected_index_list, are all given.
CountsAndListGiven ==
    /\ ~IsNone(call.element_count)
    /\ ~IsNone(call.unexpected_count)
    /\ ~IsNone(call.unexpected_list)

\* The fields that depend on nonnull_count.
MissingFields == {"missing_count", "missing_percent", "unexpected_percent_nonmissing"}

\* C11: when nonnull_count is None at BASIC or above (the other counts and the
\* list given), the formatter does not raise: the result omits missing_count,
\* missing_percent and unexpected_percent_nonmissing and holds element_count,
\* unexpected_count, unexpected_percent and partial_unexpected_list with the
\* values they have when nonnull_count is known.
C11_UnknownNonnullCountOmitsMissing ==
    (FormatDone /\ CallTier \in {"BASIC", "SUMMARY", "COMPLETE"}
        /\ IsNone(call.nonnull_count) /\ CountsAndListGiven) =>
        /\ last.kind = "return"
        /\ DOMAIN last.value.result \cap MissingFields = {}
        /\ LET r == last.value.result
               known == FormatOutcome([call EXCEPT !.nonnull_count =
                                           call.element_count]).value.result
           IN  /\ r.element_count = call.element_count
               /\ r.unexpected_count = call.unexpected_count
               /\ r.unexpected_percent = known.unexpected_percent
               /\ Val(call.element_count) > 0 =>
                     IsPercentOf(r.unexpected_percent, Val(call.unexpected_count),
                                 Val(call.element_count))
               /\ r.partial_unexpected_list = known.partial_unexpected_list
               /\ CallCap >= 0 =>
                     r.partial_unexpected_list =
                         SubSeq(Val(call.unexpected_list), 1,
                                Min(CallCap, Len(Val(call.unexpected_list))))

\* A SUMMARY result of three rows, two of them unexpected, with nonnull_count
\* unknown.
C11_Witness ==
    /\ FormatReturned
    /\ CallTier = "SUMMARY"
    /\ IsNone(call.nonnull_count)
    /\ call.element_count = Some(3)
    /\ call.unexpected_count = Some(2)
    /\ CallCap = 1
    /\ last.value.result.unexpected_percent = Some(<<200, 3>>)
    /\ Len(last.value.result.partial_unexpected_list) = 1

\* The fields of the result dict at a tier.
TierFields(tier, nonnull_known, cap) ==
    {"element_count", "unexpected_count", "unexpected_percent", "partial_unexpected_list"}
    \cup (IF nonnull_known THEN MissingFields ELSE {})
    \cup (IF tier \in {"SUMMARY", "COMPLETE"} /\ cap > 0
          THEN {"partial_unexpected_index_list", "partial_unexpected_counts"} ELSE {})
    \cup (IF tier = "COMPLETE" THEN {"unexpected_list", "unexpected_index_list"} ELSE {})

\* C20: at SUMMARY and COMPLETE with a positive cap, when the unexpected list
\* holds an unhashable value, the formatter does not raise:
\* partial_unexpected_counts is the single sentinel entry and every other field
\* of the tier is produced, partial_unexpected_index_list being the prefix of
\* the index list (None when the index list is None).
C20_UnhashableGivesSentinel ==
    (FormatDone /\ CallTier \in {"SUMMARY", "COMPLETE"} /\ CallCap > 0
        /\ CountsAndListGiven /\ ~Hashable(Val(call.unexpected_list))) =>
        /\ last.kind = "return"
        /\ LET r == last.value.result
               uil == call.unexpected_index_list
           IN  /\ r.partial_unexpected_counts = <<CountsSentinel>>
               /\ DOMAIN r = TierFields(CallTier, ~IsNone(call.nonnull_count), CallCap)
               /\ r.partial_unexpected_index_list =
                     IF IsNone(uil) THEN None
                     ELSE Some(SubSeq(Val(uil), 1, Min(CallCap, Len(Val(uil)))))
               /\ r.partial_unexpected_list =
                     SubSeq(Val(call.unexpected_list), 1,
                            Min(CallCap, Len(Val(call.unexpected_list))))
               /\ r.element_count = call.element_count
               /\ r.unexpected_count = call.unexpected_count

\* A COMPLETE result whose unexpected list holds an unhashable value and a
\* hashable one, cut by the cap.
C20_Witness ==
    /\ FormatReturned
    /\ CallTier = "COMPLETE"
    /\ CallCap = 1
    /\ ~IsNone(call.unexpected_list)
    /\ Len(Val(call.unexpected_list)) = 2
    /\ ~Hashable(Val(call.unexpected_list))
    /\ \E i \in 1..2 : Val(call.unexpected_list)[i] # Unhashable
    /\ ~IsNone(call.unexpected_index_list)
    /\ last.value.result.partial_unexpected_counts = <<CountsSentinel>>

\* lst is a prefix of full, in the same order.
IsPrefix(lst, full) ==
    /\ Len(lst) <= Len(full)
    /\ \A i \in 1..Len(lst) : lst[i] = full[i]

\* C21: at BASIC and above, partial_unexpected_list is a prefix of
\* unexpected_list, in the same order, holding exactly min(cap, length of
\* unexpected_list) elements for every cap >= 0 and never more than the cap
\* for any integer cap: it is empty when the cap is zero or negative.
C21_PartialListWithinCap ==
    (FormatReturned /\ CallTier \in {"BASIC", "SUMMARY", "COMPLETE"}) =>
        LET partial == last.value.result.partial_unexpected_list
            full == Val(call.unexpected_list)
        IN  /\ IsPrefix(partial, full)
            /\ CallCap >= 0 => Len(partial) = Min(CallCap, Len(full))
            /\ CallCap <= 0 => partial = <<>>

---------------------------------------------------------------------------
(* Properties of construction, checked under SpecConstruct *)

\* A constructor was called with a configuration.
ConstructDone == call.op = "__init__" /\ ~IsNone(call.configuration)
ConstructKwargsGiven == Val(call.configuration).kwargs
ConstructRefused ==
    last.kind = "raise" /\ last.error = "InvalidExpectationConfigurationError"

\* The messages of the checks ColumnMapDatasetExpectation makes.
ColumnMapMessages == {ColumnRequiredMessage, MostlyNotNumberMessage, MostlyRangeMessage}

\* The kwargs have no column, or a mostly that is no number or lies outside
\* [0, 1].
NoColumnOrBadMostly(kwargs) ==
    \/ "column" \notin DOMAIN kwargs
    \/ /\ "mostly" \in DOMAIN kwargs
       /\ \/ Len(kwargs.mostly) # 2
          \/ kwargs.mostly[1] < 0
          \/ kwargs.mostly[1] > kwargs.mostly[2]

C13_TypeMatches ==
    /\ ~IsNone(configuration) => Val(configuration).expectation_type = ExpectationType
    /\ (ConstructDone /\ Val(call.configuration).expectation_type # ExpectationType) =>
          /\ ConstructRefused
          /\ IsNone(configuration)

\* A construction with the type of another expectation, refused.
C13_Witness ==
    /\ ConstructDone
    /\ Val(call.configuration).expectation_type = OtherExpectationType
    /\ ~NoColumnOrBadMostly(ConstructKwargsGiven)
    /\ "min_value" \in DOMAIN ConstructKwargsGiven
    /\ ConstructRefused
    /\ Val(last.value) = TypeMismatchMessage
    /\ IsNone(configuration)

\* The bound is absent or None.
BoundIsNull(kwargs, name) == name \notin DOMAIN kwargs \/ IsNone(kwargs[name])
\* The bound is absent, None or an integer.
BoundIsNullOrInteger(kwargs, name) == BoundIsNull(kwargs, name) \/ IsInteger(kwargs[name])

\* C18: validate_configuration of ExpectColumnValueLengthsToBeBetween accepts
\* a configuration (one that passes the column-map checks, with integer
\* bounds) when at least one of min_value and max_value is non-null, max_value
\* alone included, and rejects it with 'min_value and max_value cannot both be
\* None' exactly when both are null or absent.
C18_OneBoundSuffices ==
    (ConstructDone
        /\ ColumnMapDatasetExpectation_validate_configuration(Val(call.configuration)).kind = "return"
        /\ BoundIsNullOrInteger(ConstructKwargsGiven, "min_value")
        /\ BoundIsNullOrInteger(ConstructKwargsGiven, "max_value")) =>
        LET both_null == /\ BoundIsNull(ConstructKwargsGiven, "min_value")
                         /\ BoundIsNull(ConstructKwargsGiven, "max_value")
        IN  /\ both_null => (ConstructRefused /\ Val(last.value) = BothNoneMessage)
            /\ ~both_null => last.kind = "return"

---------------------------------------------------------------------------
(* Properties of the value-lengths-between condition, checked under          *)
(* SpecCondition                                                             *)

ConditionDone == call.op = "value_lengths_between" /\ last.kind # "none"

\* C17: for every length L and every bounds setting with at least one of
\* min_value, max_value non-null, the condition marks the value as matching
\* exactly when (min_value is null or L >= min_value, > when strict_min is
\* true) and (max_value is null or L <= max_value, < when strict_max is true),
\* a null strict flag meaning non-strict; min 1, max 3, non-strict gives true
\* for the lengths 1, 2, 3 and false for 4.
C17_LengthBetween ==
    (ConditionDone /\ ~(IsNone(call.min_value) /\ IsNone(call.max_value))) =>
        LET L == call.column_length
            lower == \/ IsNone(call.min_value)
                     \/ IF call.strict_min = Some(TRUE) THEN L > Val(call.min_value)
                        ELSE L >= Val(call.min_value)
            upper == \/ IsNone(call.max_value)
                     \/ IF call.strict_max = Some(TRUE) THEN L < Val(call.max_value)
                        ELSE L <= Val(call.max_value)
        IN  /\ last.kind = "return"
            /\ last.value <=> (lower /\ upper)
            /\ (call.min_value = Some(1) /\ call.max_value = Some(3)
                  /\ ~IsStrict(call.strict_min) /\ ~IsStrict(call.strict_max)) =>
                  (last.value <=> L \in {1, 2, 3})

\* Length 4 against min 1, max 3, both flags false: no match.
C17_Witness ==
    /\ ConditionDone
    /\ call.column_length = 4
    /\ call.min_value = Some(1)
    /\ call.max_value = Some(3)
    /\ call.strict_min = Some(FALSE)
    /\ call.strict_max = Some(FALSE)
    /\ last = Return(FALSE)

\* One of the three implementations has been applied.
AnyConditionDone == call.op \in ConditionOps /\ last.kind # "none"

\* C23: for every length and every min_value, max_value, strict_min,
\* strict_max (each possibly null) with at least one bound non-null, the
\* expectation's pandas implementation, its SQL implementation and the metric's
\* pandas condition classify the value identically.
C23_ImplementationsAgree ==
    (AnyConditionDone /\ ~(IsNone(call.min_value) /\ IsNone(call.max_value))) =>
        /\ last.kind = "return"
        /\ last = ColumnValuesValueLengthsBetween_pandas(call.column_length, call.min_value, call.max_value, call.strict_min, call.strict_max)
        /\ last = pandas_value_length_between(call.column_length, call.min_value, call.max_value, call.strict_min, call.strict_max)
        /\ last = sqlalchemy_value_length_between(call.column_length, call.min_value, call.max_value, call.strict_min, call.strict_max)

\* The SQL implementation rejects length 2 against min 2, max 3 with a strict
\* lower bound and a null strict_max.
C23_Witness ==
    /\ call.op = "_sqlalchemy_value_length_between"
    /\ call.column_length = 2
    /\ call.min_value = Some(2)
    /\ call.max_value = Some(3)
    /\ call.strict_min = Some(TRUE)
    /\ call.strict_max = None
    /\ last = Return(FALSE)

---------------------------------------------------------------------------
(* Properties of validate_configuration, checked under                      *)
(* SpecValidateConfiguration                                                *)

ValidateConfigurationDone == call.op = "validate_configuration" /\ last.kind # "none"

\* C24: for each expectation type in src (length-between, z-score,
\* match-regex) and every configuration of that type, validate_configuration
\* returns True or raises InvalidExpectationConfigurationError; no other error
\* escapes, also for a z-score configuration with a threshold and no
\* double_sided, or a length configuration whose bound is not a number.
C24_TwoOutcomes ==
    ValidateConfigurationDone =>
        \/ last = Return(TRUE)
        \/ last.kind = "raise" /\ last.error = "InvalidExpectationConfigurationError"

\* C24 for the match-regex expectation alone.
C24_RegexTwoOutcomes ==
    (ValidateConfigurationDone /\ call.class = RegexExpectationType) =>
        \/ last = Return(TRUE)
        \/ last.kind = "raise" /\ last.error = "InvalidExpectationConfigurationError"

---------------------------------------------------------------------------
(* Properties of sequences of calls, checked under SpecSequence *)

\* The caller's configuration object and the instance's stored configuration
\* are as they were before the first call.
ConfigurationsUntouched == configuration = call.own0 /\ call.given = call.given0

\* C25: no sequence of get_runtime_kwargs, get_validation_dependencies,
\* metrics_validate and _validate calls changes the kwargs of the
\* configuration they are given or of the instance's stored configuration: a
\* runtime override is applied to a copy, so a later get_runtime_kwargs call
\* without overrides gives what the original kwargs give.
C25_ConfigurationsNotChanged ==
    call.op \in SequenceOps =>
        /\ ConfigurationsUntouched
        /\ (call.op = "get_runtime_kwargs" /\ ~Truthy(call.runtime_configuration) /\ last.kind = "return") =>
              last.value = get_runtime_kwargs(Val(TargetConfiguration(call.target, call.own0, call.given0)), None)

\* After a call that overrode result_format on the caller's configuration, a
\* get_runtime_kwargs call without overrides gives the BASIC of the defaults.
C25_Witness ==
    /\ call.op = "get_runtime_kwargs"
    /\ call.target = "given"
    /\ "given" \in call.overridden
    /\ IsNone(call.runtime_configuration)
    /\ "result_format" \notin DOMAIN call.given0.kwargs
    /\ last.kind = "return"
    /\ last.value.result_format.result_format = "BASIC"

\* The configuration argument of a metrics_validate call about target, with
\* the caller's configuration object as it was before the first call.
OriginalArgument == IF call.target = "given" THEN Some(call.given0) ELSE None

\* C29: a metrics_validate call that fails (a requested metric missing from
\* the mapping, an error inside _validate or the formatter) leaves the
\* instance, its configuration, the caller's configuration and the supplied
\* mapping unchanged: in any sequence of calls, a metrics_validate call made
\* after a failure has the outcome it has on the instance as constructed.
C29_FailedCallLeavesNoTrace ==
    (call.op \in SequenceOps /\ call.failed) =>
        /\ ConfigurationsUntouched
        /\ call.op \in {"metrics_validate", "_validate"} =>
              call.metrics = MetricsArg(call.choice, column, call.own0, OriginalArgument, call.runtime_configuration, SequenceEngine)
        /\ call.op = "metrics_validate" =>
              last = metrics_validate(call.own0, MetricsArg(call.choice, column, call.own0, OriginalArgument, call.runtime_configuration, SequenceEngine), OriginalArgument, call.runtime_configuration, SequenceEngine)

\* After a failed call, metrics_validate of the instance's own configuration
\* returns a result.
C29_Witness ==
    /\ call.op = "metrics_validate"
    /\ call.target = "own"
    /\ call.failed
    /\ last.kind = "return"
    /\ "success" \in DOMAIN last.value

\* C26: within one metrics_validate call the tier that chooses the metric
\* dependencies equals the tier that shapes the result, for every class
\* default, configuration result_format and runtime_configuration (absent,
\* empty, with a result_format); both are the runtime override, else the
\* configuration's result_format, else the class default BASIC.
C26_SameTierInBothPlaces ==
    (call.op = "metrics_validate" /\ ~IsNone(TargetConfiguration(call.target, configuration, call.given))) =>
        LET config == Val(TargetConfiguration(call.target, configuration, call.given))
            runtime == call.runtime_configuration
            dependency_tier == get_validation_dependencies(config, SequenceEngine, runtime).result_format.result_format
            shaping_tier == ValidateResultFormat(config, runtime)
            precedence == IF ~IsNone(runtime) /\ "result_format" \in DOMAIN Val(runtime)
                          THEN Val(runtime).result_format
                          ELSE IF "result_format" \in DOMAIN config.kwargs
                          THEN config.kwargs.result_format
                          ELSE "BASIC"
        IN  /\ dependency_tier = shaping_tier
            /\ shaping_tier = precedence

\* SUMMARY asked at run time of the instance's configuration that names
\* COMPLETE: a result of the SUMMARY shape.
C26_Witness ==
    /\ call.op = "metrics_validate"
    /\ call.target = "own"
    /\ last.kind = "return"
    /\ Get(Val(configuration).kwargs, "result_format", "") = "COMPLETE"
    /\ call.runtime_configuration = Some(("result_format" :> "SUMMARY"))
    /\ "partial_unexpected_index_list" \in DOMAIN last.value.result
    /\ "unexpected_list" \notin DOMAIN last.value.result

---------------------------------------------------------------------------
(* Properties of the metric's own dependency, checked under                 *)
(* SpecEvaluationDependencies                                               *)

EvaluationDependenciesDone == call.op = "get_evaluation_dependencies" /\ last.kind = "return"

\* The metric declares exactly one dependency, column_values.value_lengths,
\* with the domain kwargs of the requesting node, and the pandas condition
\* reads no other resolved metric.
OneDependencyOnSameDomain ==
    /\ DOMAIN last.value = {function_metric_name}
    /\ last.value[function_metric_name].metric_name = function_metric_name
    /\ last.value[function_metric_name].metric_domain_kwargs = call.metric.metric_domain_kwargs
    /\ ConditionReads \subseteq DOMAIN last.value

\* C28: the value-lengths-between metric declares exactly one further
\* dependency, named column_values.value_lengths, whose domain kwargs equal
\* those of the requesting node; its pandas condition reads no resolved metric
\* other than that one; and the declared node carries every value kwarg that
\* column_values.value_lengths declares as a value key.
C28_DeclaredDependency ==
    EvaluationDependenciesDone =>
        /\ OneDependencyOnSameDomain
        /\ function_value_keys \subseteq DOMAIN last.value[function_metric_name].metric_value_kwargs

\* C28 without the value keys of the declared node.
C28_OneDependencyOnSameDomain == EvaluationDependenciesDone => OneDependencyOnSameDomain

---------------------------------------------------------------------------
(* Properties of _calc_map_expectation_success, checked under SpecCalc *)

CalcDone == call.op = "_calc_map_expectation_success" /\ last.kind = "return"

\* C30: for nonnull_count > 0 and 0 <= success_count <= nonnull_count,
\* _calc_map_expectation_success returns the same success with mostly = 1 as
\* with mostly = None, true exactly when success_count = nonnull_count; for
\* nonnull_count = 0 it returns success = true and percent_success = None for
\* every mostly.
C30_MostlyOneIsNoMostly ==
    CalcDone =>
        LET sc == call.success_count
            nn == call.nonnull_count
        IN  /\ (nn > 0 /\ sc <= nn /\ call.mostly \in {None, Some(<<1, 1>>)}) =>
                  /\ last.value.success <=> (sc = nn)
                  /\ calc_map_expectation_success(sc, nn, Some(<<1, 1>>)).success
                        = calc_map_expectation_success(sc, nn, None).success
            /\ nn = 0 => last.value = [success |-> TRUE, percent_success |-> None]

\* Two successes of two non-null values pass with mostly = 1.
C30_Witness ==
    /\ CalcDone
    /\ call.success_count = 2
    /\ call.nonnull_count = 2
    /\ call.mostly = Some(<<1, 1>>)
    /\ last.value = [success |-> TRUE, percent_success |-> Some(<<1, 1>>)]

====
